---- MODULE Spec2Model ----
(***************************************************************************)
(* Credential and session lifecycle of the marketplace backend             *)
(* (src/src/handlers/auth.rs): signup, confirm, login, logout,             *)
(* refresh_token, reset_password, otp_verify, the AuthenticatedUser        *)
(* extractor and update_password, over the users and otp_tokens tables.    *)
(*                                                                         *)
(* Requests run concurrently against one store.  A handler with one        *)
(* store statement that changes state is one action; signup, whose         *)
(* existence check and insert are two statements separated by awaits,      *)
(* is three actions (check, insert, send) per in-flight request.           *)
(* Every store statement and every mail delivery may fail.                 *)
(***************************************************************************)
EXTENDS Integers, Sequences, FiniteSets, Bags, TLC

(* ---------------------------- bounds ---------------------------------- *)
MaxUsers == 2
MaxInflight == 2
MaxTokens == 2
MaxOtps == 1
NSalts == 1

Emails == {"a@x.com", "b@x.com"}
Passwords == {"pw", "wrong"}
Salts == 1..NSalts
\* values the store generates for an OTP, and what a client may submit
OtpValues == {"111"}
OtpGuesses == OtpValues \cup {"000"}
Slots == 1..MaxInflight
\* rows the products sequence may number, objects the bucket may hold
MaxProducts == 2
MaxUploads == 2

(* ------------------------ program constants --------------------------- *)
\* 7 * 24 * 60 * 60 in login and refresh_token, Duration::days(7) in
\* signup and otp_verify
Week == 7 * 24 * 60 * 60
\* Validation::default() and Validation::new(HS256) keep the library's
\* leeway of 60 seconds; confirm sets validation.leeway = 0
DefaultLeeway == 60
ConfirmLeewayDefault == 60
ConfirmLeeway == 0
\* lifetime the store gives an otp_tokens row (column default)
OtpTtl == 300
\* services::s3::MAX_FILE_SIZE
MAX_FILE_SIZE == 5 * 1024 * 1024
DefaultSecret == "secret"
Unset == "unset"
SecretEnvs == {Unset, "k1"}

\* the instants the clock is observed at: issue time, the expiry of a
\* token issued at 0, and the second after it
Instants == {0, Week, Week + 1}
\* for the decoders that keep the default leeway: the last second such a
\* token is accepted, and the first it is refused
SessionInstants == {0, Week + DefaultLeeway, Week + DefaultLeeway + 1}
\* for an OTP created at 0: the instant of its expiry and the second after
OtpInstants == {0, OtpTtl, OtpTtl + 1}

VARIABLES
    users,      \* table users: sequence of rows, id = position
    otps,       \* table otp_tokens: set of rows
    signups,    \* in-flight signup requests, one per slot
    issued,     \* tokens handed to clients so far
    now,        \* wall clock, seconds
    jwtEnv,     \* the JWT_SECRET environment variable of the process
    resp,       \* the response just sent, until its client has read it
    confirmed,  \* emails for which a confirm request decoded its token
    journey,    \* progress of the latest signup -> confirm sequence
    raced,      \* two signups for one email have been in flight together
    profiles,   \* tables buyers, sellers and user_categories
    catalog     \* tables of products.rs and the objects of the bucket

vars == <<users, otps, signups, issued, now, jwtEnv, resp,
          confirmed, journey, raced, profiles, catalog>>

(* ------------------------- password hashing --------------------------- *)
\* argon2 digest of a password under a salt: a one-way, injective image
Digest(pw, salt) == <<"argon2id", salt, pw>>

\* a store of the password as submitted
HashPasswordPlain(pw, salt) ==
    [alg |-> "plain", salt |-> salt, digest |-> <<"plain", salt, pw>>]

\* Argon2::default().hash_password(pw, salt).to_string(): the PHC string
\* carries algorithm, salt and digest
HashPassword(pw, salt) ==
    [alg |-> "argon2id", salt |-> salt, digest |-> Digest(pw, salt)]

\* a verification that accepts every password
VerifyPasswordAny(pw, hash) == hash.alg = "argon2id"

\* Argon2::default().verify_password(pw, parsed_hash).is_ok()
VerifyPassword(pw, hash) ==
    /\ hash.alg = "argon2id"
    /\ Digest(pw, hash.salt) = hash.digest

(* ------------------------------ tokens -------------------------------- *)
\* a server without the fallback: the unset variable read as it is
SecretNoFallback == jwtEnv

\* env::var("JWT_SECRET").unwrap_or_else(|_| "secret".into())
Secret == IF jwtEnv = Unset THEN DefaultSecret ELSE jwtEnv

\* HMAC of the payload under a key
Sign(key, sub, email, exp) == <<key, sub, email, exp>>

\* encode(&Header::default(), &claims, &EncodingKey::from_secret(secret))
Encode(sub, email, exp, key) ==
    [fmt |-> "jwt", sub |-> sub, email |-> email, exp |-> exp,
     sig |-> Sign(key, sub, email, exp)]

NoToken == [fmt |-> "none", sub |-> 0, email |-> "", exp |-> 0, sig |-> <<>>]
Garbage == [fmt |-> "garbage", sub |-> 0, email |-> "", exp |-> 0, sig |-> <<>>]

\* one byte of the signature flipped
TamperSig(t) == [t EXCEPT !.sig = Sign("tampered", t.sub, t.email, t.exp)]

\* a decoder that read the claims without verifying the signature
DecodeNoSignature(t, key, leeway, clock) ==
    IF t.fmt # "jwt" THEN "InvalidToken"
    ELSE IF t.exp < clock - leeway THEN "ExpiredSignature"
    ELSE "Ok"

\* decode(token, &DecodingKey::from_secret(secret), &validation): the
\* structure, then the signature, then exp against the clock with leeway
Decode(t, key, leeway, clock) ==
    IF t.fmt # "jwt" THEN "InvalidToken"
    ELSE IF t.sig # Sign(key, t.sub, t.email, t.exp) THEN "InvalidSignature"
    ELSE IF t.exp < clock - leeway THEN "ExpiredSignature"
    ELSE "Ok"

\* what a client can put in a request: a token it was given, such a token
\* with its signature altered, or something that is no token
Presentable == issued \cup {TamperSig(t) : t \in issued} \cup {Garbage}

\* tokens made outside the server by someone who tries the well-known
\* default secret: for the first user id and for an id no row has
Forged ==
    {Encode(sub, "a@x.com", Week, DefaultSecret) : sub \in {1, MaxUsers + 1}}

CanIssue(t) == t \in issued \/ Cardinality(issued) < MaxTokens

(* ----------------------------- the store ------------------------------ *)
Ids == 1..Len(users)
RowsByEmail(e) == {i \in Ids : users[i].email = e}

\* a row that is born confirmed
NewUserRowActive(id, email, hash) ==
    [id |-> id, email |-> email, password |-> hash, active |-> TRUE]

\* INSERT INTO users (first_name, last_name, email, password): the id and
\* active = false are the column defaults
NewUserRow(id, email, hash) ==
    [id |-> id, email |-> email, password |-> hash, active |-> FALSE]

\* an UPDATE whose WHERE clause matches no row
SetActiveNowhere(us, email) == us

\* UPDATE users SET active = true WHERE email = $1
SetActive(us, email) ==
    [i \in DOMAIN us |->
        IF us[i].email = email THEN [us[i] EXCEPT !.active = TRUE] ELSE us[i]]

\* an UPDATE that lost its WHERE clause
SetPasswordAll(us, id, hash) ==
    [i \in DOMAIN us |-> [us[i] EXCEPT !.password = hash]]

\* UPDATE users SET password = $1 WHERE id = $2
SetPassword(us, id, hash) ==
    [i \in DOMAIN us |->
        IF us[i].id = id THEN [us[i] EXCEPT !.password = hash] ELSE us[i]]

\* INSERT INTO otp_tokens (user_id) RETURNING otp: value and expiry are
\* column defaults.  A table is a bag, every INSERT adds a row of its
\* own: n tells the rows apart, in the order they were inserted
NewOtpRow(uid, value, clock) ==
    [n |-> Cardinality(otps) + 1, user_id |-> uid, otp |-> value,
     expires_at |-> clock + OtpTtl]

\* a lookup that forgot the expiry
OtpMatchesNoExpiry(value, uid, clock) ==
    {o \in otps : o.otp = value /\ o.user_id = uid}

\* a lookup that forgot the owner
OtpMatchesAnyUser(value, uid, clock) ==
    {o \in otps : o.otp = value /\ o.expires_at >= clock}

\* SELECT user_id FROM otp_tokens WHERE otp = $1 AND user_id = $2
\*   AND expires_at >= NOW()
OtpMatches(value, uid, clock) ==
    {o \in otps : o.otp = value /\ o.user_id = uid /\ o.expires_at >= clock}

(* --------------------- profile and catalog tables --------------------- *)
\* buyers and sellers are bags of user ids, one copy for each row of the
\* table; categories holds pairs <<user id, category>>
NoProfiles == [buyers |-> EmptyBag, sellers |-> EmptyBag, categories |-> {}]

\* products, product_images, product_delivery_options and
\* product_payment_options; nextId is the sequence behind products.id,
\* bucket the objects put to the bucket, in upload order
NoCatalog ==
    [products |-> {}, images |-> {}, delivery |-> {}, payment |-> {},
     nextId |-> 1, bucket |-> <<>>]

\* a request without a body the model looks at
NoRequest == [parts |-> <<>>]

(* ----------------------------- responses ------------------------------ *)
NoMail == [to |-> "", delivered |-> FALSE]

\* a response, the request it answers, and the tables as the request
\* found them
Response(op, status, body) ==
    [op |-> op, status |-> status, body |-> body, token |-> NoToken,
     email |-> "", password |-> "", presented |-> NoToken, otp |-> "",
     row |-> 0, dbErr |-> FALSE, mail |-> NoMail, request |-> NoRequest,
     before |-> [users |-> users, otps |-> otps,
                 profiles |-> profiles, catalog |-> catalog]]

NoResponse ==
    [op |-> "none", status |-> 0, body |-> "", token |-> NoToken,
     email |-> "", password |-> "", presented |-> NoToken, otp |-> "",
     row |-> 0, dbErr |-> FALSE, mail |-> NoMail, request |-> NoRequest,
     before |-> [users |-> <<>>, otps |-> {},
                 profiles |-> NoProfiles, catalog |-> NoCatalog]]

\* no response is waiting to be read by its client
Quiet == resp = NoResponse

Idle == [pc |-> "idle", email |-> "", password |-> "", row |-> 0]
NoJourney == [stage |-> "none", email |-> "", password |-> "", token |-> NoToken]

\* the state of a fresh deployment whose JWT_SECRET variable is env
InitWith(env) ==
    /\ users = <<>>
    /\ otps = {}
    /\ signups = [r \in Slots |-> Idle]
    /\ issued = {}
    /\ now = 0
    /\ jwtEnv = env
    /\ resp = NoResponse
    /\ confirmed = {}
    /\ journey = NoJourney
    /\ raced = FALSE
    /\ profiles = NoProfiles
    /\ catalog = NoCatalog

Init == InitWith(Unset)

(* ------------------------------ signup -------------------------------- *)
InFlight == {r \in Slots : signups[r].pc # "idle"}

\* a signup that skipped its existence check
EmailTakenNever(e) == FALSE

\* existing_user.is_some()
EmailTaken(e) == RowsByEmail(e) # {}

\* SELECT email FROM users WHERE email = $1 ... .unwrap(), and the 409
SignupCheckResponse(e, p, dbOk) ==
    IF ~dbOk
    THEN [Response("signup", 0, "panic") EXCEPT
            !.email = e, !.password = p, !.dbErr = TRUE]
    ELSE [Response("signup", 409, "User with this email already exists")
            EXCEPT !.email = e, !.password = p]

\* a request arrives and runs up to the await after its existence check
SignupCheck(r, e, p, dbOk) ==
    /\ Quiet
    /\ signups[r].pc = "idle"
    /\ \A q \in Slots : q < r => signups[q].pc # "idle"
    /\ IF dbOk /\ ~EmailTaken(e)
       THEN /\ Len(users) + Cardinality(InFlight) < MaxUsers
            /\ signups' = [signups EXCEPT
                   ![r] = [pc |-> "checked", email |-> e, password |-> p,
                           row |-> 0]]
            /\ raced' = (raced \/ \E q \in InFlight : signups[q].email = e)
            /\ UNCHANGED <<resp, journey>>
       ELSE /\ resp' = SignupCheckResponse(e, p, dbOk)
            /\ journey' = NoJourney
            /\ UNCHANGED <<signups, raced>>
    /\ UNCHANGED <<users, otps, issued, now, jwtEnv, confirmed>>
    /\ UNCHANGED <<profiles, catalog>>

\* a store that refused a second row for an email
InsertAcceptedUniqueEmail(e, dbOk) == dbOk /\ ~EmailTaken(e)

\* whether the INSERT INTO users returns a row: the statement carries no
\* condition on the email, so only a failure of the store stops it
InsertAccepted(e, dbOk) == dbOk

\* the password is hashed under a fresh salt and the row inserted; a
\* rejected insert ends the request with 500
SignupInsert(r, salt, dbOk) ==
    /\ Quiet
    /\ signups[r].pc = "checked"
    /\ IF InsertAccepted(signups[r].email, dbOk)
       THEN /\ users' = Append(users,
                   NewUserRow(Len(users) + 1, signups[r].email,
                              HashPassword(signups[r].password, salt)))
            /\ signups' = [signups EXCEPT
                   ![r].pc = "inserted", ![r].row = Len(users) + 1]
            /\ UNCHANGED <<resp, journey>>
       ELSE /\ resp' = [Response("signup", 500, "InternalServerError") EXCEPT
                   !.email = signups[r].email,
                   !.password = signups[r].password, !.dbErr = TRUE]
            /\ signups' = [signups EXCEPT ![r] = Idle]
            /\ journey' = NoJourney
            /\ UNCHANGED users
    /\ UNCHANGED <<otps, issued, now, jwtEnv, confirmed, raced>>
    /\ UNCHANGED <<profiles, catalog>>

\* a token whose subject is not the inserted row
SignupTokenOtherSub(r) ==
    Encode(signups[r].row + 1, signups[r].email, now + Week, Secret)

\* the token signup signs for the row it inserted
SignupToken(r) ==
    Encode(signups[r].row, signups[r].email, now + Week, Secret)

\* a signup that ignored the result of the send
SignupSendResponseIgnoringSend(r, mailOk) ==
    [Response("signup", 200, "Registration successful") EXCEPT
        !.email = signups[r].email, !.password = signups[r].password,
        !.row = signups[r].row, !.token = SignupToken(r),
        !.mail = [to |-> signups[r].email, delivered |-> mailOk]]

\* send_confirmation_email(...).await? and the final response
SignupSendResponse(r, mailOk) ==
    IF mailOk
    THEN [Response("signup", 200, "Registration successful") EXCEPT
            !.email = signups[r].email, !.password = signups[r].password,
            !.row = signups[r].row, !.token = SignupToken(r),
            !.mail = [to |-> signups[r].email, delivered |-> TRUE]]
    ELSE [Response("signup", 500, "Failed to send email") EXCEPT
            !.email = signups[r].email, !.password = signups[r].password,
            !.row = signups[r].row,
            !.mail = [to |-> signups[r].email, delivered |-> FALSE]]

\* the token is signed, mailed inside the confirmation link and returned
SignupSend(r, mailOk) ==
    /\ Quiet
    /\ signups[r].pc = "inserted"
    /\ mailOk => CanIssue(SignupToken(r))
    /\ resp' = SignupSendResponse(r, mailOk)
    /\ issued' = IF mailOk THEN issued \cup {SignupToken(r)} ELSE issued
    /\ journey' = IF mailOk
                  THEN [stage |-> "signed", email |-> signups[r].email,
                        password |-> signups[r].password,
                        token |-> SignupToken(r)]
                  ELSE NoJourney
    /\ signups' = [signups EXCEPT ![r] = Idle]
    /\ UNCHANGED <<users, otps, now, jwtEnv, confirmed, raced>>
    /\ UNCHANGED <<profiles, catalog>>

(* ------------------------------ confirm ------------------------------- *)
\* the Validation confirm decodes with
ConfirmDecode(t) == Decode(t, Secret, ConfirmLeeway, now)

\* match token_data { Ok => ... 200, Err(error) => 500 }
ConfirmResponse(t, dbOk) ==
    IF ConfirmDecode(t) = "Ok"
    THEN [Response("confirm", 200, "Email successfully confirmed!") EXCEPT
            !.presented = t, !.email = t.email, !.dbErr = ~dbOk]
    ELSE [Response("confirm", 500, ConfirmDecode(t)) EXCEPT !.presented = t]

\* let _ = sqlx::query("UPDATE users SET active = true ...").await: the
\* statement's result is discarded
ConfirmUsers(t, dbOk) ==
    IF ConfirmDecode(t) = "Ok" /\ dbOk THEN SetActive(users, t.email) ELSE users

Confirm(t, dbOk) ==
    /\ Quiet
    /\ resp' = ConfirmResponse(t, dbOk)
    /\ users' = ConfirmUsers(t, dbOk)
    /\ confirmed' = IF ConfirmDecode(t) = "Ok"
                    THEN confirmed \cup {t.email} ELSE confirmed
    /\ journey' = IF /\ journey.stage = "signed"
                     /\ t = journey.token
                     /\ ConfirmDecode(t) = "Ok"
                  THEN [journey EXCEPT !.stage = "confirmed"]
                  ELSE NoJourney
    /\ UNCHANGED <<otps, signups, issued, now, jwtEnv, raced>>
    /\ UNCHANGED <<profiles, catalog>>

(* ------------------------------- login -------------------------------- *)
\* a login token that lives one day
LoginTokenDay(i, e) == Encode(users[i].id, e, now + 24 * 60 * 60, Secret)

\* claims of sub = id, the submitted email, exp = now + 7 * 24 * 60 * 60
LoginToken(i, e) == Encode(users[i].id, e, now + Week, Secret)

\* a login that tells a wrong password from an unknown email
LoginResponseWrongPassword(e, p, i, dbOk) ==
    LET base(status, body) ==
            [Response("login", status, body) EXCEPT !.email = e, !.password = p]
    IN  IF ~dbOk
        THEN [base(500, "InternalServerError") EXCEPT !.dbErr = TRUE]
        ELSE IF i = 0 THEN base(401, "Invalid credentials")
        ELSE IF ~users[i].active THEN base(401, "Email not confirmed")
        ELSE IF VerifyPassword(p, users[i].password)
        THEN [base(200, "") EXCEPT !.token = LoginToken(i, e)]
        ELSE base(401, "Wrong password")

\* a login that never looked at the active flag
LoginResponseNoActiveCheck(e, p, i, dbOk) ==
    LET base(status, body) ==
            [Response("login", status, body) EXCEPT !.email = e, !.password = p]
    IN  IF ~dbOk
        THEN [base(500, "InternalServerError") EXCEPT !.dbErr = TRUE]
        ELSE IF i = 0 THEN base(401, "Invalid credentials")
        ELSE IF VerifyPassword(p, users[i].password)
        THEN [base(200, "") EXCEPT !.token = LoginToken(i, e)]
        ELSE base(401, "Invalid credentials")

\* i is the row fetch_optional returned, 0 for none
LoginResponse(e, p, i, dbOk) ==
    LET base(status, body) ==
            [Response("login", status, body) EXCEPT !.email = e, !.password = p]
    IN  IF ~dbOk
        THEN [base(500, "InternalServerError") EXCEPT !.dbErr = TRUE]
        ELSE IF i = 0 THEN base(401, "Invalid credentials")
        ELSE IF ~users[i].active THEN base(401, "Email not confirmed")
        ELSE IF VerifyPassword(p, users[i].password)
        THEN [base(200, "") EXCEPT !.token = LoginToken(i, e)]
        ELSE base(401, "Invalid credentials")

Login(e, p, i, dbOk) ==
    /\ Quiet
    /\ i \in RowsByEmail(e) \cup {0}
    /\ (i = 0) = (RowsByEmail(e) = {})
    /\ LET out == LoginResponse(e, p, i, dbOk)
       IN  /\ out.status = 200 => CanIssue(out.token)
           /\ resp' = out
           /\ issued' = IF out.status = 200
                        THEN issued \cup {out.token} ELSE issued
    /\ journey' = IF /\ journey.stage = "confirmed"
                     /\ e = journey.email
                     /\ p = journey.password
                  THEN [journey EXCEPT !.stage = "login"]
                  ELSE NoJourney
    /\ UNCHANGED <<users, otps, signups, now, jwtEnv, confirmed, raced>>
    /\ UNCHANGED <<profiles, catalog>>

(* ------------------------------- logout ------------------------------- *)
Logout ==
    /\ Quiet
    /\ resp' = Response("logout", 200,
                        "Logged out (token should be removed on client)")
    /\ journey' = NoJourney
    /\ UNCHANGED <<users, otps, signups, issued, now, jwtEnv, confirmed, raced>>
    /\ UNCHANGED <<profiles, catalog>>

(* --------------------------- refresh_token ---------------------------- *)
\* a refresh whose validation had its expiry check switched off
RefreshDecodeNoExpiry(t) == Decode(t, Secret, now + DefaultLeeway, now)

\* decode::<Claims>(&req.refresh_token, ..., &Validation::default())
RefreshDecode(t) == Decode(t, Secret, DefaultLeeway, now)

\* a refresh that copied the presented token's expiry
RefreshResponseKeepsExp(t) ==
    IF RefreshDecode(t) = "Ok"
    THEN [Response("refresh_token", 200, "") EXCEPT
            !.presented = t,
            !.token = Encode(t.sub, t.email, t.exp, Secret)]
    ELSE [Response("refresh_token", 401, "Invalid token") EXCEPT
            !.presented = t]

\* Ok(data) => new claims with exp = now + 7 days, Err(_) => 401
RefreshResponse(t) ==
    IF RefreshDecode(t) = "Ok"
    THEN [Response("refresh_token", 200, "") EXCEPT
            !.presented = t,
            !.token = Encode(t.sub, t.email, now + Week, Secret)]
    ELSE [Response("refresh_token", 401, "Invalid token") EXCEPT
            !.presented = t]

RefreshToken(t) ==
    /\ Quiet
    /\ LET out == RefreshResponse(t)
       IN  /\ out.status = 200 => CanIssue(out.token)
           /\ resp' = out
           /\ issued' = IF out.status = 200
                        THEN issued \cup {out.token} ELSE issued
    /\ journey' = NoJourney
    /\ UNCHANGED <<users, otps, signups, now, jwtEnv, confirmed, raced>>
    /\ UNCHANGED <<profiles, catalog>>

(* --------------------------- reset_password --------------------------- *)
\* a reset that returns the OTP although the mail was not sent
ResetResponseLeaksOtp(e, i, v, selOk, insOk, mailOk) ==
    LET base(status, body) ==
            [Response("reset_password", status, body) EXCEPT !.email = e]
    IN  IF ~selOk
        THEN [base(500, "InternalServerError") EXCEPT !.dbErr = TRUE]
        ELSE IF i = 0 THEN base(401, "User not found")
        ELSE IF ~insOk
        THEN [base(500, "InternalServerError") EXCEPT !.dbErr = TRUE]
        ELSE IF ~mailOk
        THEN [base(500, "Failed to send email") EXCEPT
                !.row = i, !.otp = v,
                !.mail = [to |-> e, delivered |-> FALSE]]
        ELSE [base(200, "") EXCEPT
                !.row = i, !.otp = v, !.mail = [to |-> e, delivered |-> TRUE]]

\* a reset that answers an unknown email like a failed login
ResetResponseCollapsed(e, i, v, selOk, insOk, mailOk) ==
    LET base(status, body) ==
            [Response("reset_password", status, body) EXCEPT !.email = e]
    IN  IF ~selOk
        THEN [base(500, "InternalServerError") EXCEPT !.dbErr = TRUE]
        ELSE IF i = 0 THEN base(401, "Invalid credentials")
        ELSE IF ~insOk
        THEN [base(500, "InternalServerError") EXCEPT !.dbErr = TRUE]
        ELSE IF ~mailOk
        THEN [base(500, "Failed to send email") EXCEPT
                !.row = i, !.mail = [to |-> e, delivered |-> FALSE]]
        ELSE [base(200, "") EXCEPT
                !.row = i, !.otp = v, !.mail = [to |-> e, delivered |-> TRUE]]

\* i is the row fetch_optional returned, 0 for none; v the OTP value the
\* store generated
ResetResponse(e, i, v, selOk, insOk, mailOk) ==
    LET base(status, body) ==
            [Response("reset_password", status, body) EXCEPT !.email = e]
    IN  IF ~selOk
        THEN [base(500, "InternalServerError") EXCEPT !.dbErr = TRUE]
        ELSE IF i = 0 THEN base(401, "User not found")
        ELSE IF ~insOk
        THEN [base(500, "InternalServerError") EXCEPT !.dbErr = TRUE]
        ELSE IF ~mailOk
        THEN [base(500, "Failed to send email") EXCEPT
                !.row = i, !.mail = [to |-> e, delivered |-> FALSE]]
        ELSE [base(200, "") EXCEPT
                !.row = i, !.otp = v, !.mail = [to |-> e, delivered |-> TRUE]]

\* a reset that withdrew the user's earlier OTPs
ResetOtpsReplacing(i, v, selOk, insOk) ==
    IF selOk /\ i # 0 /\ insOk
    THEN {o \in otps : o.user_id # users[i].id}
            \cup {NewOtpRow(users[i].id, v, now)}
    ELSE otps

\* the otp_tokens row is inserted before the mail is sent
ResetOtps(i, v, selOk, insOk) ==
    IF selOk /\ i # 0 /\ insOk
    THEN otps \cup {NewOtpRow(users[i].id, v, now)}
    ELSE otps

\* the handler, while the table holds at most cap rows
ResetPasswordWithin(cap, e, i, v, selOk, insOk, mailOk) ==
    /\ Quiet
    /\ i \in RowsByEmail(e) \cup {0}
    /\ (i = 0) = (RowsByEmail(e) = {})
    /\ Cardinality(ResetOtps(i, v, selOk, insOk)) <= cap
    /\ resp' = ResetResponse(e, i, v, selOk, insOk, mailOk)
    /\ otps' = ResetOtps(i, v, selOk, insOk)
    /\ journey' = NoJourney
    /\ UNCHANGED <<users, signups, issued, now, jwtEnv, confirmed, raced>>
    /\ UNCHANGED <<profiles, catalog>>

ResetPassword(e, i, v, selOk, insOk, mailOk) ==
    ResetPasswordWithin(MaxOtps, e, i, v, selOk, insOk, mailOk)

(* ----------------------------- otp_verify ----------------------------- *)
\* a verification whose token lives only as long as an OTP
OtpResponseShortLived(e, v, i, selOk, otpOk) ==
    LET base(status, body) ==
            [Response("otp_verify", status, body) EXCEPT !.email = e, !.otp = v]
    IN  IF ~selOk
        THEN [base(500, "InternalServerError") EXCEPT !.dbErr = TRUE]
        ELSE IF i = 0 THEN base(401, "Invalid credentials")
        ELSE IF ~otpOk
        THEN [base(500, "InternalServerError") EXCEPT !.dbErr = TRUE]
        ELSE IF OtpMatches(v, users[i].id, now) # {}
        THEN [base(200, "Login successful") EXCEPT
                !.row = i,
                !.token = Encode(users[i].id, e, now + OtpTtl, Secret)]
        ELSE base(401, "Invalid credentials")

\* a verification that, like login, refuses a user who is not confirmed
OtpResponseActiveOnly(e, v, i, selOk, otpOk) ==
    LET base(status, body) ==
            [Response("otp_verify", status, body) EXCEPT !.email = e, !.otp = v]
    IN  IF ~selOk
        THEN [base(500, "InternalServerError") EXCEPT !.dbErr = TRUE]
        ELSE IF i = 0 THEN base(401, "Invalid credentials")
        ELSE IF ~users[i].active THEN base(401, "Email not confirmed")
        ELSE IF ~otpOk
        THEN [base(500, "InternalServerError") EXCEPT !.dbErr = TRUE]
        ELSE IF OtpMatches(v, users[i].id, now) # {}
        THEN [base(200, "Login successful") EXCEPT
                !.row = i,
                !.token = Encode(users[i].id, e, now + Week, Secret)]
        ELSE base(401, "Invalid credentials")

\* i is the row fetch_optional returned, 0 for none; v the submitted value
OtpResponse(e, v, i, selOk, otpOk) ==
    LET base(status, body) ==
            [Response("otp_verify", status, body) EXCEPT !.email = e, !.otp = v]
    IN  IF ~selOk
        THEN [base(500, "InternalServerError") EXCEPT !.dbErr = TRUE]
        ELSE IF i = 0 THEN base(401, "Invalid credentials")
        ELSE IF ~otpOk
        THEN [base(500, "InternalServerError") EXCEPT !.dbErr = TRUE]
        ELSE IF OtpMatches(v, users[i].id, now) # {}
        THEN [base(200, "Login successful") EXCEPT
                !.row = i,
                !.token = Encode(users[i].id, e, now + Week, Secret)]
        ELSE base(401, "Invalid credentials")

\* a verification that used its OTP up
OtpVerifyOtpsConsumed(e, v, i, selOk, otpOk) ==
    IF selOk /\ i # 0 /\ otpOk
    THEN otps \ OtpMatches(v, users[i].id, now)
    ELSE otps

\* otp_tokens after the request: the handler only SELECTs from it
OtpVerifyOtps(e, v, i, selOk, otpOk) == otps

OtpVerify(e, v, i, selOk, otpOk) ==
    /\ Quiet
    /\ i \in RowsByEmail(e) \cup {0}
    /\ (i = 0) = (RowsByEmail(e) = {})
    /\ LET out == OtpResponse(e, v, i, selOk, otpOk)
       IN  /\ out.status = 200 => CanIssue(out.token)
           /\ resp' = out
           /\ issued' = IF out.status = 200
                        THEN issued \cup {out.token} ELSE issued
    /\ otps' = OtpVerifyOtps(e, v, i, selOk, otpOk)
    /\ journey' = NoJourney
    /\ UNCHANGED <<users, signups, now, jwtEnv, confirmed, raced>>
    /\ UNCHANGED <<profiles, catalog>>

(* ------------------- AuthenticatedUser::from_request ------------------ *)
\* the Authorization header of a request
NoHeader == [kind |-> "none", token |-> NoToken]
Headers ==
    {NoHeader, [kind |-> "Basic", token |-> Garbage]}
    \cup {[kind |-> "Bearer", token |-> t] : t \in Presentable}

\* a guard that refuses a token in the last second of its life
GuardDecodeStrict(t) == Decode(t, Secret, 0 - 1, now)

\* Validation::new(Algorithm::HS256)
GuardDecode(t) == Decode(t, Secret, DefaultLeeway, now)

\* a guard that took the claims of a bearer token without verifying it
GuardNoDecode(h) ==
    IF h.kind # "Bearer" THEN "Missing or malformed token"
    ELSE IF h.token.fmt # "jwt" THEN "Invalid token"
    ELSE "Ok"

\* a guard that also wants the token's user confirmed
GuardActiveOnly(h) ==
    IF h.kind # "Bearer" THEN "Missing or malformed token"
    ELSE IF GuardDecode(h.token) # "Ok" THEN "Invalid token"
    ELSE IF h.token.sub \in Ids /\ ~users[h.token.sub].active
    THEN "Email not confirmed"
    ELSE "Ok"

\* "Ok", or the message of the 401
Guard(h) ==
    IF h.kind # "Bearer" THEN "Missing or malformed token"
    ELSE IF GuardDecode(h.token) # "Ok" THEN "Invalid token"
    ELSE "Ok"

\* the extractor yields the claims of a bearer token
GuardAccepts(t) == Guard([kind |-> "Bearer", token |-> t]) = "Ok"

(* --------------------------- update_password -------------------------- *)
UpdatePasswordResponse(h, p, dbOk) ==
    LET base(status, body) ==
            [Response("update_password", status, body) EXCEPT
                !.presented = h.token, !.password = p]
    IN  IF Guard(h) # "Ok" THEN base(401, Guard(h))
        ELSE IF ~dbOk
        THEN [base(500, "InternalServerError") EXCEPT !.dbErr = TRUE]
        ELSE IF h.token.sub \notin Ids THEN base(404, "User not found")
        ELSE [base(200, "Password updated successfully") EXCEPT
                !.row = h.token.sub]

\* an update that answered without storing the new hash
UpdatePasswordUsersLost(h, p, salt, dbOk) == users

UpdatePasswordUsers(h, p, salt, dbOk) ==
    IF Guard(h) = "Ok" /\ dbOk
    THEN SetPassword(users, h.token.sub, HashPassword(p, salt))
    ELSE users

UpdatePassword(h, p, salt, dbOk) ==
    /\ Quiet
    /\ resp' = UpdatePasswordResponse(h, p, dbOk)
    /\ users' = UpdatePasswordUsers(h, p, salt, dbOk)
    /\ journey' = NoJourney
    /\ UNCHANGED <<otps, signups, issued, now, jwtEnv, confirmed, raced>>
    /\ UNCHANGED <<profiles, catalog>>

(* ---------------------------- users::create --------------------------- *)
\* update_user_role runs DELETE FROM <table> then INSERT INTO <table>,
\* for buyers when is_buyer and then for sellers when is_seller
RoleStatements(isBuyer, isSeller) ==
    (IF isBuyer
     THEN <<[op |-> "delete", table |-> "buyers"],
            [op |-> "insert", table |-> "buyers"]>>
     ELSE <<>>)
    \o (IF isSeller
        THEN <<[op |-> "delete", table |-> "sellers"],
               [op |-> "insert", table |-> "sellers"]>>
        ELSE <<>>)

\* a role update that forgot its DELETE
ApplyRoleInsertOnly(p, st, uid) ==
    IF st.op = "delete"
    THEN p
    ELSE [p EXCEPT ![st.table] = @ (+) SetToBag({uid})]

\* the tables after one statement run for user uid: the DELETE removes
\* every row of the user, the INSERT adds one
ApplyRole(p, st, uid) ==
    IF st.op = "delete"
    THEN [p EXCEPT ![st.table] = [u \in DOMAIN @ \ {uid} |-> @[u]]]
    ELSE [p EXCEPT ![st.table] = @ (+) SetToBag({uid})]

RECURSIVE RunRoles(_, _, _, _)
\* the tables after the first n statements; there is no transaction
RunRoles(p, sts, uid, n) ==
    IF n = 0 THEN p ELSE ApplyRole(RunRoles(p, sts, uid, n - 1), sts[n], uid)

\* fail is the position of the statement the store fails, 0 for none
UsersCreateResponse(h, isBuyer, isSeller, fail) ==
    LET base(status, body) ==
            [Response("users_create", status, body) EXCEPT
                !.presented = h.token,
                !.request = [is_buyer |-> isBuyer, is_seller |-> isSeller]]
    IN  IF Guard(h) # "Ok" THEN base(401, Guard(h))
        ELSE IF fail # 0
        THEN [base(500, "InternalServerError") EXCEPT
                !.dbErr = TRUE, !.row = h.token.sub]
        ELSE [base(200, "User roles updated successfully") EXCEPT
                !.row = h.token.sub]

UsersCreateProfiles(h, isBuyer, isSeller, fail) ==
    LET sts == RoleStatements(isBuyer, isSeller)
    IN  IF Guard(h) # "Ok" THEN profiles
        ELSE RunRoles(profiles, sts, h.token.sub,
                      IF fail = 0 THEN Len(sts) ELSE fail - 1)

UsersCreate(h, isBuyer, isSeller, fail) ==
    /\ Quiet
    /\ fail <= Len(RoleStatements(isBuyer, isSeller))
    /\ Guard(h) # "Ok" => fail = 0
    /\ resp' = UsersCreateResponse(h, isBuyer, isSeller, fail)
    /\ profiles' = UsersCreateProfiles(h, isBuyer, isSeller, fail)
    /\ journey' = NoJourney
    /\ UNCHANGED <<users, otps, signups, issued, now, jwtEnv, confirmed,
                   raced, catalog>>

(* -------------------------- users::categories ------------------------- *)
\* the category lists a request may carry
CategoryLists == {<<>>, <<1>>, <<1, 2>>}

\* DELETE FROM user_categories WHERE user_id = $1
ClearCategories(p, uid) ==
    [p EXCEPT !.categories = {row \in @ : row[1] # uid}]

\* INSERT INTO user_categories (user_id, category_id) VALUES ...
AddCategories(p, uid, cats) ==
    [p EXCEPT !.categories = @ \cup {<<uid, cats[k]>> : k \in DOMAIN cats}]

\* fail is 1 when the DELETE fails, 2 when the INSERT does, 0 for neither
UsersCategoriesResponse(h, cats, fail) ==
    LET base(status, body) ==
            [Response("users_categories", status, body) EXCEPT
                !.presented = h.token, !.request = [categories |-> cats]]
    IN  IF Guard(h) # "Ok" THEN base(401, Guard(h))
        ELSE IF fail = 1
        THEN [base(500, "InternalServerError") EXCEPT
                !.dbErr = TRUE, !.row = h.token.sub]
        ELSE IF cats = <<>>
        THEN [base(200, "User categories cleared") EXCEPT !.row = h.token.sub]
        ELSE IF fail = 2
        THEN [base(500, "InternalServerError") EXCEPT
                !.dbErr = TRUE, !.row = h.token.sub]
        ELSE [base(200, "User categories updated successfully") EXCEPT
                !.row = h.token.sub]

\* the DELETE and the INSERT are two statements outside any transaction
UsersCategoriesProfiles(h, cats, fail) ==
    IF Guard(h) # "Ok" \/ fail = 1 THEN profiles
    ELSE IF cats = <<>> \/ fail = 2
    THEN ClearCategories(profiles, h.token.sub)
    ELSE AddCategories(ClearCategories(profiles, h.token.sub),
                       h.token.sub, cats)

UsersCategories(h, cats, fail) ==
    /\ Quiet
    /\ Guard(h) # "Ok" => fail = 0
    /\ cats = <<>> => fail # 2
    /\ resp' = UsersCategoriesResponse(h, cats, fail)
    /\ profiles' = UsersCategoriesProfiles(h, cats, fail)
    /\ journey' = NoJourney
    /\ UNCHANGED <<users, otps, signups, issued, now, jwtEnv, confirmed,
                   raced, catalog>>

(* --------------------------- products::create ------------------------- *)
\* a part of a multipart body: a text field, or a file with its name
NoFilename == [stem |-> "", ext |-> ""]
TextPart(name, value) ==
    [name |-> name, value |-> value, filename |-> NoFilename, size |-> 0]
FilePart(name, stem, ext, size) ==
    [name |-> name, value |-> "", filename |-> [stem |-> stem, ext |-> ext],
     size |-> size]

\* mime_guess::from_path(&filename).first_or_octet_stream()
MimeOf(filename) ==
    CASE filename.ext \in {"jpg", "jpeg"} -> "image/jpeg"
      [] filename.ext = "png" -> "image/png"
      [] filename.ext = "webp" -> "image/webp"
      [] filename.ext = "gif" -> "image/gif"
      [] OTHER -> "application/octet-stream"

AllowedMimes == {"image/jpeg", "image/png", "image/jpg", "image/webp"}

\* form_data.insert(name, value): a later field of a name replaces it
Put(form, name, value) ==
    [x \in DOMAIN form \cup {name} |-> IF x = name THEN value ELSE form[x]]

NoForm == [x \in {} |-> ""]

RECURSIVE ReadParts(_, _, _, _)
\* the loop over payload.next(): parts named "photos" are size checked,
\* type checked by file name and kept, every other part is a form field
ReadParts(parts, k, form, photos) ==
    IF k > Len(parts)
    THEN [err |-> "", form |-> form, photos |-> photos]
    ELSE IF parts[k].name = "photos"
    THEN LET filename ==
                 IF parts[k].filename = NoFilename
                 THEN [stem |-> "upload", ext |-> "jpg"]
                 ELSE parts[k].filename
         IN  IF parts[k].size > MAX_FILE_SIZE
             THEN [err |-> "File too large", form |-> form, photos |-> photos]
             ELSE IF MimeOf(filename) \notin AllowedMimes
             THEN [err |-> "Invalid file type", form |-> form,
                   photos |-> photos]
             ELSE ReadParts(parts, k + 1, form,
                            Append(photos, [size |-> parts[k].size,
                                            filename |-> filename]))
    ELSE ReadParts(parts, k + 1,
                   Put(form, parts[k].name, parts[k].value), photos)

\* Regex ^(\+380\d{9}|\d{10})$ on the phone numbers requests carry
ValidPhone(v) == v \in {"+380501234567", "0501234567"}
\* str::parse::<f64>, str::parse::<i32> and the split(',') of id lists,
\* on the values requests carry
F64Of == "99.99" :> 9999
I32Of == ("1" :> 1) @@ ("2" :> 2)
IdListOf == ("1,2" :> <<1, 2>>) @@ ("1" :> <<1>>)
\* ProductCondition::from_str: s.to_uppercase() is "NEW" or "USED"
ConditionOf ==
    ("new" :> "NEW") @@ ("NEW" :> "NEW") @@ ("used" :> "USED")
        @@ ("USED" :> "USED")

\* parse_form_data: the first missing or invalid field decides the error;
\* an id list that does not parse panics in unwrap()
ParseFormData(form) ==
    LET has(n) == n \in DOMAIN form
        bad(msg) == [err |-> msg, data |-> <<>>]
    IN  IF ~has("title") THEN bad("Missing title")
        ELSE IF ~has("description") THEN bad("Missing description")
        ELSE IF ~has("phone_number") THEN bad("Phone number is missing")
        ELSE IF ~ValidPhone(form["phone_number"])
        THEN bad("Invalid phone number format")
        ELSE IF ~has("price") THEN bad("Missing price")
        ELSE IF form["price"] \notin DOMAIN F64Of
        THEN bad("Invalid price format")
        ELSE IF ~has("category_id") THEN bad("Missing category")
        ELSE IF form["category_id"] \notin DOMAIN I32Of
        THEN bad("Invalid price format")
        ELSE IF has("delivery_option")
                /\ form["delivery_option"] \notin DOMAIN IdListOf
        THEN bad("panic")
        ELSE IF has("payment_option")
                /\ form["payment_option"] \notin DOMAIN IdListOf
        THEN bad("panic")
        ELSE IF ~has("condition") THEN bad("Missing condition")
        ELSE IF form["condition"] \notin DOMAIN ConditionOf
        THEN bad("Invalid condition")
        ELSE [err |-> "",
              data |-> [title |-> form["title"],
                        description |-> form["description"],
                        category_id |-> I32Of[form["category_id"]],
                        condition |-> ConditionOf[form["condition"]],
                        price |-> F64Of[form["price"]],
                        phone_number |-> form["phone_number"],
                        delivery_option_ids |->
                            IF has("delivery_option")
                            THEN IdListOf[form["delivery_option"]] ELSE <<>>,
                        payment_option_ids |->
                            IF has("payment_option")
                            THEN IdListOf[form["payment_option"]] ELSE <<>>]]

\* what the handler knows when it is about to begin its transaction, or
\* the message of the 400 it answers before
Parsed(parts) ==
    LET read == ReadParts(parts, 1, NoForm, <<>>)
        form == ParseFormData(read.form)
    IN  IF read.err # "" THEN [err |-> read.err, data |-> <<>>, photos |-> <<>>]
        ELSE IF form.err # ""
        THEN [err |-> form.err, data |-> <<>>, photos |-> <<>>]
        ELSE IF read.photos = <<>>
        THEN [err |-> "At least one photo is required", data |-> <<>>,
              photos |-> <<>>]
        ELSE [err |-> "", data |-> form.data, photos |-> read.photos]

RECURSIVE PhotoSteps(_)
PhotoSteps(n) ==
    IF n = 0 THEN <<>> ELSE PhotoSteps(n - 1) \o <<"upload", "image">>

\* the fallible steps from db_pool.begin() to tx.commit(), in order
CreateSteps(data, photos) ==
    <<"begin", "product">> \o PhotoSteps(Len(photos))
    \o (IF data.delivery_option_ids # <<>> THEN <<"delivery">> ELSE <<>>)
    \o (IF data.payment_option_ids # <<>> THEN <<"payment">> ELSE <<>>)
    \o <<"commit">>

\* how many of the first n steps are steps of kind
Done(steps, n, kind) ==
    Cardinality({k \in 1..n : k <= Len(steps) /\ steps[k] = kind})

\* steps that completed when step fail failed (all of them when fail = 0)
Completed(steps, fail) == IF fail = 0 THEN Len(steps) ELSE fail - 1

\* upload_to_s3 puts the object under a fresh key: the bucket grows by
\* every photo whose upload completed, committed or not
BucketAfter(bucket, photos, uploaded) ==
    bucket \o [k \in 1..uploaded |-> photos[k].filename]

\* all rows of the request become visible at tx.commit(), none before
CommittedCatalog(c, uid, data, photos) ==
    [c EXCEPT
        !.products = @ \cup {[id |-> c.nextId, user_id |-> uid,
                              title |-> data.title,
                              category_id |-> data.category_id,
                              condition |-> data.condition,
                              price |-> data.price,
                              phone_number |-> data.phone_number]},
        !.images = @ \cup {[product_id |-> c.nextId,
                            url |-> Len(c.bucket) + k,
                            position |-> k - 1] : k \in DOMAIN photos},
        !.delivery = @ \cup {<<c.nextId, data.delivery_option_ids[k]>> :
                                k \in DOMAIN data.delivery_option_ids},
        !.payment = @ \cup {<<c.nextId, data.payment_option_ids[k]>> :
                                k \in DOMAIN data.payment_option_ids}]

\* fail is the position in CreateSteps of the step that fails, 0 for none
ProductsCreateResponse(h, parts, fail) ==
    LET base(status, body) ==
            [Response("products_create", status, body) EXCEPT
                !.presented = h.token, !.request = [parts |-> parts]]
        in == Parsed(parts)
        steps == CreateSteps(in.data, in.photos)
    IN  IF Guard(h) # "Ok" THEN base(401, Guard(h))
        ELSE IF in.err = "panic" THEN base(0, "panic")
        ELSE IF in.err # "" THEN base(400, in.err)
        ELSE IF fail = 0
        THEN [base(200, "Product created") EXCEPT !.row = h.token.sub]
        ELSE IF steps[fail] = "upload"
        THEN [base(500, "Failed to upload to S3") EXCEPT !.row = h.token.sub]
        ELSE [base(500, "InternalServerError") EXCEPT
                !.dbErr = TRUE, !.row = h.token.sub]

ProductsCreateCatalog(h, parts, fail) ==
    LET in == Parsed(parts)
        steps == CreateSteps(in.data, in.photos)
        done == Completed(steps, fail)
        uploaded == Done(steps, done, "upload")
        \* the sequence behind products.id moves even if the insert is
        \* rolled back
        numbered == [catalog EXCEPT
                        !.nextId = @ + Done(steps, done, "product"),
                        !.bucket = BucketAfter(@, in.photos, uploaded)]
    IN  IF Guard(h) # "Ok" \/ in.err # "" THEN catalog
        ELSE IF fail = 0
        THEN [CommittedCatalog(catalog, h.token.sub, in.data, in.photos)
                EXCEPT !.nextId = numbered.nextId, !.bucket = numbered.bucket]
        ELSE numbered

ProductsCreate(h, parts, fail) ==
    /\ Quiet
    /\ (Guard(h) # "Ok" \/ Parsed(parts).err # "") => fail = 0
    /\ (Guard(h) = "Ok" /\ Parsed(parts).err = "")
       => fail <= Len(CreateSteps(Parsed(parts).data, Parsed(parts).photos))
    /\ ProductsCreateCatalog(h, parts, fail).nextId <= MaxProducts + 1
    /\ Len(ProductsCreateCatalog(h, parts, fail).bucket) <= MaxUploads
    /\ resp' = ProductsCreateResponse(h, parts, fail)
    /\ catalog' = ProductsCreateCatalog(h, parts, fail)
    /\ journey' = NoJourney
    /\ UNCHANGED <<users, otps, signups, issued, now, jwtEnv, confirmed,
                   raced, profiles>>

(* ------------------------- reading a response ------------------------ *)
\* the client takes the response; the journey it belongs to goes on
Observe ==
    /\ ~Quiet
    /\ resp' = NoResponse
    /\ UNCHANGED <<users, otps, signups, issued, now, jwtEnv,
                   confirmed, journey, raced>>
    /\ UNCHANGED <<profiles, catalog>>

(* ------------------------------- clock -------------------------------- *)
\* time passes, up to a later one of the instants T
Tick(T) ==
    /\ Quiet
    /\ now' \in {t \in T : t > now}
    /\ UNCHANGED <<users, otps, signups, issued, jwtEnv, resp, confirmed,
                   journey, raced>>
    /\ UNCHANGED <<profiles, catalog>>

\* POST /register, by the requests in flight in the slots S
SignupNext(S) ==
    \/ \E r \in S, e \in Emails, p \in Passwords, dbOk \in BOOLEAN :
          SignupCheck(r, e, p, dbOk)
    \/ \E r \in S, salt \in Salts, dbOk \in BOOLEAN :
          SignupInsert(r, salt, dbOk)
    \/ \E r \in S, mailOk \in BOOLEAN : SignupSend(r, mailOk)

ConfirmNext == \E t \in Presentable, dbOk \in BOOLEAN : Confirm(t, dbOk)

LoginNext ==
    \E e \in Emails, p \in Passwords, i \in 0..MaxUsers, dbOk \in BOOLEAN :
        Login(e, p, i, dbOk)

RefreshNext == \E t \in Presentable : RefreshToken(t)

ResetNext ==
    \E e \in Emails, i \in 0..MaxUsers, v \in OtpValues,
       selOk \in BOOLEAN, insOk \in BOOLEAN, mailOk \in BOOLEAN :
        ResetPassword(e, i, v, selOk, insOk, mailOk)

OtpNext ==
    \E e \in Emails, v \in OtpGuesses, i \in 0..MaxUsers,
       selOk \in BOOLEAN, otpOk \in BOOLEAN :
        OtpVerify(e, v, i, selOk, otpOk)

UpdatePasswordNext ==
    \E h \in Headers, p \in Passwords, salt \in Salts, dbOk \in BOOLEAN :
        UpdatePassword(h, p, salt, dbOk)

\* every route of /api/v1/auth, one signup request at a time
Next ==
    \/ SignupNext({1})
    \/ ConfirmNext
    \/ LoginNext
    \/ Logout
    \/ RefreshNext
    \/ ResetNext
    \/ OtpNext
    \/ UpdatePasswordNext
    \/ Observe
    \/ Tick(Instants)

Spec == Init /\ [][Next]_vars

\* registration and login, with signup requests running concurrently
RegistrationNext ==
    \/ SignupNext(Slots)
    \/ ConfirmNext
    \/ LoginNext
    \/ Observe
    \/ Tick(Instants)

SpecRegistration == Init /\ [][RegistrationNext]_vars

\* the routes that decode a session token, around the expiry of a token
SessionNext ==
    \/ SignupNext({1})
    \/ ConfirmNext
    \/ LoginNext
    \/ RefreshNext
    \/ UpdatePasswordNext
    \/ Observe
    \/ Tick(SessionInstants)

SpecSession == Init /\ [][SessionNext]_vars

\* the password reset by OTP, around the expiry of an OTP
ResetFlowNext ==
    \/ SignupNext({1})
    \/ ConfirmNext
    \/ ResetNext
    \/ OtpNext
    \/ Observe
    \/ Tick(OtpInstants)

SpecReset == Init /\ [][ResetFlowNext]_vars

\* the multipart bodies sent to products::create: the one of
\* tests/create_product.rs, the same under the names the handler reads,
\* and bodies that leave the handler early
BaseFields(categoryName) ==
    <<TextPart("title", "New Product"),
      TextPart("description", "Awesome item"),
      TextPart("price", "99.99"),
      TextPart("phone_number", "+380501234567"),
      TextPart(categoryName, "1"),
      TextPart("condition", "new"),
      TextPart("delivery_option", "1,2"),
      TextPart("payment_option", "1")>>
TestRequest ==
    BaseFields("category") \o <<FilePart("photo", "test", "jpg", 1024)>>
GoodRequest ==
    BaseFields("category_id")
        \o <<FilePart("photos", "test", "jpg", 1024)>>
ProductRequests ==
    {TestRequest,
     GoodRequest,
     GoodRequest \o <<FilePart("photos", "side", "png", MAX_FILE_SIZE)>>,
     BaseFields("category_id"),
     BaseFields("category_id")
        \o <<FilePart("photos", "test", "jpg", MAX_FILE_SIZE + 1)>>,
     BaseFields("category_id")
        \o <<FilePart("photos", "anim", "gif", 1024)>>,
     Tail(GoodRequest),
     GoodRequest \o <<TextPart("phone_number", "12345")>>,
     GoodRequest \o <<TextPart("delivery_option", "1,x")>>}

\* the longest run of fallible steps a body of ProductRequests leads to
MaxSteps == 9

UsersCreateNext ==
    \E h \in Headers, isBuyer \in BOOLEAN, isSeller \in BOOLEAN,
       fail \in 0..4 :
        UsersCreate(h, isBuyer, isSeller, fail)

UsersCategoriesNext ==
    \E h \in Headers, cats \in CategoryLists, fail \in 0..2 :
        UsersCategories(h, cats, fail)

ProductsCreateNext ==
    \E h \in Headers, parts \in ProductRequests, fail \in 0..MaxSteps :
        ProductsCreate(h, parts, fail)

\* POST /register for one email and password, one request at a time
SignupOne ==
    \/ \E dbOk \in BOOLEAN : SignupCheck(1, "a@x.com", "pw", dbOk)
    \/ \E salt \in Salts, dbOk \in BOOLEAN : SignupInsert(1, salt, dbOk)
    \/ \E mailOk \in BOOLEAN : SignupSend(1, mailOk)

\* the routes behind the AuthenticatedUser extractor, with a signup to
\* create a user and a token, around the expiry of that token
ProtectedInstants == {0, Week + DefaultLeeway + 1}
ProtectedNext ==
    \/ SignupOne
    \/ \E h \in Headers, salt \in Salts, dbOk \in BOOLEAN :
          UpdatePassword(h, "wrong", salt, dbOk)
    \/ UsersCreateNext
    \/ UsersCategoriesNext
    \/ \E h \in Headers, fail \in 0..MaxSteps :
          ProductsCreate(h, GoodRequest, fail)
    \/ Observe
    \/ Tick(ProtectedInstants)

SpecProtected == Init /\ [][ProtectedNext]_vars

\* products::create with every body of ProductRequests
CatalogNext ==
    \/ SignupOne
    \/ ProductsCreateNext
    \/ Observe

SpecCatalog == Init /\ [][CatalogNext]_vars

\* a deployment with JWT_SECRET set or unset
InitAnyEnv == \E env \in SecretEnvs : InitWith(env)

\* the decoding routes, presented with the server's tokens and with
\* tokens forged under the default secret
ConfirmAny ==
    \E t \in Presentable \cup Forged, dbOk \in BOOLEAN : Confirm(t, dbOk)

RefreshAny == \E t \in Presentable \cup Forged : RefreshToken(t)

UpdatePasswordAny ==
    \E h \in Headers \cup {[kind |-> "Bearer", token |-> t] : t \in Forged},
       p \in Passwords, salt \in Salts, dbOk \in BOOLEAN :
        UpdatePassword(h, p, salt, dbOk)

\* every route that signs or verifies a token, at one instant
SecretNext ==
    \/ SignupNext({1})
    \/ ConfirmAny
    \/ LoginNext
    \/ RefreshAny
    \/ ResetNext
    \/ OtpNext
    \/ UpdatePasswordAny
    \/ Observe

SpecSecret == InitAnyEnv /\ [][SecretNext]_vars

\* recovery of an account whose confirmation mail was lost: the signup
\* requests arrive at the first instant, resets and confirms at any time
RecoveryNext ==
    \/ now = 0 /\ SignupOne
    \/ ConfirmNext
    \/ ResetNext
    \/ OtpNext
    \/ Observe
    \/ Tick(OtpInstants)

SpecRecovery == Init /\ [][RecoveryNext]_vars

\* repeated resets for one user: the store hands out a different value
\* for each of up to MaxResets rows, and clients submit those values
MaxResets == 2
ResetValues == {"111", "222"}

RepeatedResetNext ==
    \/ now = 0 /\ SignupOne
    \/ \E i \in 0..MaxUsers, v \in ResetValues,
          selOk \in BOOLEAN, insOk \in BOOLEAN, mailOk \in BOOLEAN :
          ResetPasswordWithin(MaxResets, "a@x.com", i, v, selOk, insOk, mailOk)
    \/ \E v \in ResetValues, i \in 0..MaxUsers,
          selOk \in BOOLEAN, otpOk \in BOOLEAN :
          OtpVerify("a@x.com", v, i, selOk, otpOk)
    \/ Observe
    \/ Tick(OtpInstants)

SpecRepeatedReset == Init /\ [][RepeatedResetNext]_vars

\* a password change between logins: one user, signed up with "pw"
PasswordChangeNext ==
    \/ SignupOne
    \/ ConfirmNext
    \/ UpdatePasswordNext
    \/ \E p \in Passwords, i \in 0..MaxUsers, dbOk \in BOOLEAN :
          Login("a@x.com", p, i, dbOk)
    \/ Observe

SpecPasswordChange == Init /\ [][PasswordChangeNext]_vars

\* two users, each setting its roles
RolesNext ==
    \/ \E e \in Emails, dbOk \in BOOLEAN : SignupCheck(1, e, "pw", dbOk)
    \/ \E salt \in Salts, dbOk \in BOOLEAN : SignupInsert(1, salt, dbOk)
    \/ \E mailOk \in BOOLEAN : SignupSend(1, mailOk)
    \/ UsersCreateNext
    \/ Observe

SpecRoles == Init /\ [][RolesNext]_vars

(* =============================== claims =============================== *)
\* rows of a table us stored under an email
RowsOf(us, e) == {i \in DOMAIN us : us[i].email = e}

\* the key a token's signature was made with
SignedWith(t) == IF t.sig = <<>> THEN "" ELSE t.sig[1]

\* C1: after a signup answered 200, a confirm of the returned token that
\* is answered 200, and a login with the same email and password whose
\* query succeeded, for an email stored once, the login is answered 200
\* with a token the authentication guard accepts.
C1_SignupConfirmLogin ==
    ( /\ journey.stage = "login"
      /\ resp.op = "login"
      /\ ~resp.dbErr
      /\ Cardinality(RowsByEmail(journey.email)) = 1 )
    => /\ resp.status = 200
       /\ GuardAccepts(resp.token)

\* C2: a login whose query succeeded, for an email all of whose stored
\* rows have active = false, is answered 401 "Email not confirmed" and
\* carries no token, whatever the submitted password.
C2_UnconfirmedLoginRefused ==
    ( /\ resp.op = "login"
      /\ ~resp.dbErr
      /\ RowsOf(resp.before.users, resp.email) # {}
      /\ \A i \in RowsOf(resp.before.users, resp.email) :
            ~resp.before.users[i].active )
    => /\ resp.status = 401
       /\ resp.body = "Email not confirmed"
       /\ resp.token = NoToken

\* a login with the stored password was refused as not confirmed
C2_Witness ==
    /\ resp.op = "login"
    /\ resp.body = "Email not confirmed"
    /\ \E i \in RowsByEmail(resp.email) :
          VerifyPassword(resp.password, users[i].password)

\* C3: a stored user is active only if a confirm request has decoded a
\* validly signed, unexpired token carrying that user's email; no other
\* operation sets active.
C3_ActiveOnlyByConfirm ==
    \A i \in Ids : users[i].active => users[i].email \in confirmed

\* an active and a pending user, right after a password update
C3_Witness ==
    /\ resp.op = "update_password"
    /\ resp.status = 200
    /\ \E i \in Ids : users[i].active
    /\ \E i \in Ids : ~users[i].active /\ users[i].email \notin confirmed

C6_ConcurrentSignupsBothInsert ==
    Quiet =>
        \A r \in Slots :
            signups[r].pc = "checked" =>
                ENABLED (/\ \E salt \in Salts : SignupInsert(r, salt, TRUE)
                         /\ signups'[r].pc = "inserted")

\* two rows stored under one email
C6_Witness ==
    \E i, j \in Ids : i # j /\ users[i].email = users[j].email

\* C7: when the confirmation mail of a signup is not delivered the request
\* is answered with an error and no token, and the row it inserted stays
\* stored (with active = false unless a concurrent signup for the email
\* was confirmed); rows are never removed and no signup passes the
\* existence check for a stored email, so a later signup gets 409.
C7_Step ==
    /\ (resp'.op = "signup" /\ resp'.mail.to # "" /\ ~resp'.mail.delivered)
       => /\ resp'.status = 500
          /\ resp'.token = NoToken
          /\ resp'.row \in 1..Len(users')
          /\ users'[resp'.row].email = resp'.email
          /\ ~raced' => ~users'[resp'.row].active
    /\ \A e \in Emails : EmailTaken(e) => EmailTaken(e)'
    /\ \A r \in Slots :
          (signups[r].pc = "idle" /\ signups'[r].pc = "checked")
          => ~EmailTaken(signups'[r].email)

C7_MailFailureLeavesPendingRow == [][C7_Step]_vars

\* a 409 for an email whose only row is pending and was never given a token
C7_Witness ==
    /\ resp.op = "signup"
    /\ resp.status = 409
    /\ InFlight = {}
    /\ \A t \in issued : t.email # resp.email
    /\ \E i \in RowsByEmail(resp.email) : ~users[i].active

\* C8: whenever confirm answers 200, every stored user under the token's
\* email has active = true.
C8_ConfirmOkMeansActive ==
    (resp.op = "confirm" /\ resp.status = 200)
    => \A i \in RowsByEmail(resp.presented.email) : users[i].active

\* C9: a confirm of a token that is malformed, signed with another key or
\* past its exp is answered 500 and leaves the users table as it was.
C9_BadTokenChangesNothing ==
    ( /\ resp.op = "confirm"
      /\ \/ resp.presented.fmt # "jwt"
         \/ SignedWith(resp.presented) # Secret
         \/ resp.presented.exp < now )
    => /\ resp.status = 500
       /\ users = resp.before.users

\* an expired token of a pending user was refused
C9_Witness ==
    /\ resp.op = "confirm"
    /\ resp.status = 500
    /\ resp.presented.fmt = "jwt"
    /\ SignedWith(resp.presented) = Secret
    /\ resp.presented.exp < now
    /\ \E i \in RowsByEmail(resp.presented.email) : ~users[i].active

\* C10: right after confirm answered 200, a second confirm of the same
\* token is answered 200 too and leaves the users table as the first
\* left it.
C10_ConfirmIdempotent ==
    (resp.op = "confirm" /\ resp.status = 200)
    => /\ ConfirmResponse(resp.presented, TRUE).status = 200
       /\ ConfirmUsers(resp.presented, TRUE) = users

\* what the caller sees of a response
Visible(r) == [status |-> r.status, body |-> r.body, token |-> r.token]

\* the password a stored hash was produced from
HashedFrom(hash) == hash.digest[3]

\* C11: a login for an email with no stored user and a login with a wrong
\* password for an active user get the same response: 401 "Invalid
\* credentials" and no token.
C11_InvalidCredentialsUniform ==
    ( /\ resp.op = "login"
      /\ ~resp.dbErr
      /\ \A i \in RowsOf(resp.before.users, resp.email) :
            /\ resp.before.users[i].active
            /\ HashedFrom(resp.before.users[i].password) # resp.password )
    => /\ Visible(resp)
            = Visible(LoginResponse(resp.email, resp.password, 0, TRUE))
       /\ Visible(resp)
            = [status |-> 401, body |-> "Invalid credentials",
               token |-> NoToken]

\* a wrong password for an active user, while the other email is unknown
C11_Witness ==
    /\ resp.op = "login"
    /\ resp.status = 401
    /\ \E i \in RowsByEmail(resp.email) :
          users[i].active /\ HashedFrom(users[i].password) # resp.password
    /\ \E e \in Emails : RowsByEmail(e) = {}

\* C12: for an active user whose stored hash was produced from password
\* p, a login whose query succeeded is answered 200 with a token when the
\* submitted password is p and 401 "Invalid credentials" when it is not.
C12_LoginIffPasswordMatches ==
    ( /\ resp.op = "login"
      /\ ~resp.dbErr
      /\ RowsOf(resp.before.users, resp.email) # {}
      /\ \A i \in RowsOf(resp.before.users, resp.email) :
            resp.before.users[i].active )
    => /\ (\A i \in RowsOf(resp.before.users, resp.email) :
              HashedFrom(resp.before.users[i].password) = resp.password)
          => /\ resp.status = 200
             /\ resp.token.fmt = "jwt"
             /\ resp.token.email = resp.email
       /\ (\A i \in RowsOf(resp.before.users, resp.email) :
              HashedFrom(resp.before.users[i].password) # resp.password)
          => /\ resp.status = 401
             /\ resp.body = "Invalid credentials"
             /\ resp.token = NoToken

\* a login answered 200 for a user whose password the other user's
\* password differs from
C12_Witness ==
    /\ resp.op = "login"
    /\ resp.status = 200
    /\ \E i, j \in Ids :
          /\ users[i].email = resp.email
          /\ HashedFrom(users[i].password) = resp.password
          /\ HashedFrom(users[j].password) # resp.password

\* the presented token is well formed and signed with the server's key
PresentedSigned ==
    /\ resp.presented.fmt = "jwt"
    /\ SignedWith(resp.presented) = Secret
    /\ resp.presented.sig
         = Sign(Secret, resp.presented.sub, resp.presented.email,
                resp.presented.exp)

\* C13 as stated: refresh_token presented with a correctly signed token
\* whose exp is earlier than the current time is answered 401 "Invalid
\* token" and issues no token, however little time has passed since exp.
C13_ExpiredNeverRefreshed ==
    ( /\ resp.op = "refresh_token"
      /\ PresentedSigned
      /\ resp.presented.exp < now )
    => /\ resp.status = 401
       /\ resp.body = "Invalid token"
       /\ resp.token = NoToken

\* C13 amended: refresh_token presented with a correctly signed token
\* whose exp is more than 60 seconds earlier than the current time is
\* answered 401 "Invalid token" and issues no token; a token whose exp is
\* at most 60 seconds in the past is still refreshed.
C13_ExpiredBeyondLeewayRefused ==
    ( /\ resp.op = "refresh_token"
      /\ PresentedSigned )
    => /\ resp.presented.exp + 60 < now
          => /\ resp.status = 401
             /\ resp.body = "Invalid token"
             /\ resp.token = NoToken
       /\ resp.presented.exp + 60 >= now => resp.status = 200

\* a refresh refused one second after the tolerance ran out
C13_Witness ==
    /\ resp.op = "refresh_token"
    /\ PresentedSigned
    /\ resp.presented.exp + 60 + 1 = now
    /\ resp.status = 401

\* C14: refresh_token presented with a valid token is answered 200 with a
\* token whose sub and email are the presented token's and whose exp is
\* the current time plus 7 days, and every refresh leaves the users and
\* the OTP rows as they were.
C14_RefreshReissues ==
    resp.op = "refresh_token"
    => /\ (PresentedSigned /\ resp.presented.exp >= now) => resp.status = 200
       /\ resp.status = 200
          => /\ resp.token.fmt = "jwt"
             /\ resp.token.sub = resp.presented.sub
             /\ resp.token.email = resp.presented.email
             /\ resp.token.exp = now + 7 * 24 * 60 * 60
             /\ SignedWith(resp.token) = Secret
       /\ users = resp.before.users
       /\ otps = resp.before.otps

\* a token issued later than the first ones, refreshed while still valid
C14_Witness ==
    /\ resp.op = "refresh_token"
    /\ resp.status = 200
    /\ PresentedSigned
    /\ resp.presented.exp >= now
    /\ resp.presented.exp > 7 * 24 * 60 * 60
    /\ resp.token # resp.presented
    /\ users # <<>>

\* the answer of the endpoint of the response at hand to a token t
AnswerTo(t) ==
    CASE resp.op = "confirm" -> ConfirmResponse(t, TRUE)
      [] resp.op = "refresh_token" -> RefreshResponse(t)
      [] resp.op = "update_password" ->
            UpdatePasswordResponse([kind |-> "Bearer", token |-> t],
                                   resp.password, TRUE)
      [] OTHER -> resp

\* the presented token had a good signature and was rejected
RejectedForExpiry ==
    /\ PresentedSigned
    /\ \/ resp.op = "confirm" /\ resp.status = 500
       \/ resp.op \in {"refresh_token", "update_password"} /\ resp.status = 401

\* C15: at confirm, refresh_token and the authentication guard, a token
\* rejected for its expiry gets the response that the same token with a
\* bad signature gets.
C15_RejectionsIndistinguishable ==
    RejectedForExpiry
    => Visible(resp) = Visible(AnswerTo(TamperSig(resp.presented)))

\* C16: a reset_password whose query succeeded, for an email with no
\* stored user, is answered 401 "User not found", adds no OTP row and
\* sends no mail.
C16_ResetUnknownEmail ==
    ( /\ resp.op = "reset_password"
      /\ ~resp.dbErr
      /\ RowsOf(resp.before.users, resp.email) = {} )
    => /\ resp.status = 401
       /\ resp.body = "User not found"
       /\ otps = resp.before.otps
       /\ resp.mail = NoMail

\* a reset for an unknown email while another user is stored
C16_Witness ==
    /\ resp.op = "reset_password"
    /\ resp.status = 401
    /\ users # <<>>
    /\ RowsByEmail(resp.email) = {}

\* the OTP rows, as the request found them, that carry the submitted
\* value and belong to a user stored under the submitted email
OwnedOtps ==
    {o \in resp.before.otps :
        /\ o.otp = resp.otp
        /\ \E i \in RowsOf(resp.before.users, resp.email) :
              o.user_id = resp.before.users[i].id}

\* the ids of the users stored under the submitted email
SubmittedIds ==
    {resp.before.users[i].id : i \in RowsOf(resp.before.users, resp.email)}

\* C17: once reset_password has stored an OTP v for the one user under an
\* email, an otp_verify with that email and v whose queries succeeded,
\* made before the OTP's expiry, is answered 200 with a token whose sub
\* and email are that user's, whose exp is the current time plus 7 days,
\* and which the authentication guard accepts as it does a login token.
C17_OtpLoginToken ==
    ( /\ resp.op = "otp_verify"
      /\ ~resp.dbErr
      /\ Cardinality(SubmittedIds) = 1
      /\ \E o \in OwnedOtps : now < o.expires_at )
    => /\ resp.status = 200
       /\ resp.token.fmt = "jwt"
       /\ resp.token.sub \in SubmittedIds
       /\ resp.token.email = resp.email
       /\ resp.token.exp = now + 7 * 24 * 60 * 60
       /\ resp.token = LoginToken(resp.row, resp.email)
       /\ GuardAccepts(resp.token)

\* a verification of an OTP reset_password stored, before its expiry
C17_Witness ==
    /\ resp.op = "otp_verify"
    /\ resp.status = 200
    /\ \E o \in OwnedOtps : now < o.expires_at
    /\ resp.token.exp = now + 7 * 24 * 60 * 60

\* C18 as stated: otp_verify answers 200 only while the current time is
\* strictly before the matched row's expires_at, and answers 401 without
\* a token at every time from expires_at on.
C18_OtpValidStrictlyBefore ==
    ( /\ resp.op = "otp_verify"
      /\ ~resp.dbErr )
    => /\ resp.status = 200 => \E o \in OwnedOtps : now < o.expires_at
       /\ (\A o \in OwnedOtps : now >= o.expires_at)
          => resp.status = 401 /\ resp.token = NoToken

\* C18 amended: otp_verify answers 200 only while the current time is at
\* or before the matched row's expires_at (now <= expires_at); at every
\* time after expires_at it answers 401 and issues no token.
C18_OtpValidUntilExpiry ==
    ( /\ resp.op = "otp_verify"
      /\ ~resp.dbErr )
    => /\ resp.status = 200 => \E o \in OwnedOtps : now <= o.expires_at
       /\ (\A o \in OwnedOtps : now > o.expires_at)
          => resp.status = 401 /\ resp.token = NoToken

\* the right email and value, one second after the row expired
C18_Witness ==
    /\ resp.op = "otp_verify"
    /\ resp.status = 401
    /\ OwnedOtps # {}
    /\ \A o \in OwnedOtps : now = o.expires_at + 1

\* C19: otp_verify answers 200 only if a stored OTP row has exactly the
\* submitted value and belongs to the user stored under the submitted
\* email; when no row has both, be it another user's OTP or a value no
\* row carries, it answers 401 without a token.
C19_OtpBoundToOwner ==
    ( /\ resp.op = "otp_verify"
      /\ ~resp.dbErr )
    => /\ resp.status = 200
          => /\ resp.before.users[resp.row].email = resp.email
             /\ \E o \in resp.before.otps :
                   /\ o.otp = resp.otp
                   /\ o.user_id = resp.before.users[resp.row].id
       /\ OwnedOtps = {} => resp.status = 401 /\ resp.token = NoToken

\* another user's unexpired OTP submitted with the email of a stored user
C19_Witness ==
    /\ resp.op = "otp_verify"
    /\ resp.status = 401
    /\ RowsByEmail(resp.email) # {}
    /\ \E o \in otps :
          /\ o.otp = resp.otp
          /\ o.expires_at >= now
          /\ o.user_id \notin SubmittedIds
          /\ \E j \in Ids : users[j].id = o.user_id

\* C20: an otp_verify answered 200 leaves every OTP row as it was, and
\* the same email and value submitted again at that time are answered 200
\* with a token again.
C20_OtpNotConsumed ==
    ( /\ resp.op = "otp_verify"
      /\ resp.status = 200 )
    => /\ otps = resp.before.otps
       /\ OtpMatches(resp.otp, users[resp.row].id, now) # {}
       /\ OtpResponse(resp.email, resp.otp, resp.row, TRUE, TRUE).status = 200
       /\ OtpResponse(resp.email, resp.otp, resp.row, TRUE, TRUE).token.fmt
            = "jwt"

\* a verification answered 200 some time after the OTP was stored
C20_Witness ==
    /\ resp.op = "otp_verify"
    /\ resp.status = 200
    /\ otps # {}
    /\ \E o \in otps : o.otp = resp.otp /\ now > o.expires_at - OtpTtl

\* C23: logout leaves the tables as it found them, and whatever requests
\* have been served, every token issued so far whose exp the clock has
\* not passed is accepted by the authentication guard.
C23_TokensNeverInvalidated ==
    /\ resp.op = "logout"
       => /\ users = resp.before.users
          /\ otps = resp.before.otps
          /\ resp.token = NoToken
    /\ \A t \in issued : t.exp >= now => GuardAccepts(t)

\* a logout answered at the very instant a token issued before expires
C23_Witness ==
    /\ resp.op = "logout"
    /\ \E t \in issued : t.exp = now /\ GuardAccepts(t)
    /\ \E i \in Ids : users[i].active

\* the flows that hand out a token
Issuers == {"signup", "login", "refresh_token", "otp_verify"}

\* C24: every token signup, login, refresh_token and otp_verify hand out
\* has exp equal to the time of issue plus 604800 seconds.
C24_SevenDayLifetime ==
    /\ resp.token # NoToken
       => /\ resp.op \in Issuers
          /\ resp.token.exp = now + 604800
    /\ resp.op \in Issuers /\ resp.status = 200 => resp.token # NoToken

\* a login answered a week after the first tokens were issued
C24_Witness ==
    /\ resp.op = "login"
    /\ resp.status = 200
    /\ now > 0
    /\ resp.token.exp = now + 604800

\* the response is a rejection by the endpoint's decoder
DecoderRejected ==
    \/ resp.op = "confirm" /\ resp.status = 500
    \/ resp.op = "refresh_token" /\ resp.status = 401
    \/ resp.op = "update_password" /\ resp.status = 401
         /\ resp.body = "Invalid token"

\* C25: a token just handed out decodes, at confirm, refresh_token and
\* the guard, to the sub and email it was issued with, and a presented
\* token whose signature is not the one the server makes for its payload
\* is rejected by each of the three.
C25_DecodeRoundTrip ==
    /\ resp.token # NoToken
       => /\ ConfirmDecode(resp.token) = "Ok"
          /\ ConfirmResponse(resp.token, TRUE).email = resp.token.email
          /\ RefreshDecode(resp.token) = "Ok"
          /\ RefreshResponse(resp.token).token.sub = resp.token.sub
          /\ RefreshResponse(resp.token).token.email = resp.token.email
          /\ GuardAccepts(resp.token)
          /\ resp.op \in {"signup", "login"}
             => /\ resp.token.email = resp.email
                /\ resp.token.sub \in
                      {users[i].id : i \in RowsByEmail(resp.email)}
          /\ resp.op = "refresh_token"
             => /\ resp.token.email = resp.presented.email
                /\ resp.token.sub = resp.presented.sub
    /\ ( /\ resp.op \in {"confirm", "refresh_token", "update_password"}
         /\ resp.presented.fmt = "jwt"
         /\ resp.presented.sig
              # Sign(Secret, resp.presented.sub, resp.presented.email,
                     resp.presented.exp) )
       => DecoderRejected

\* a token with an altered signature, unexpired, refused by the guard
C25_Witness ==
    /\ resp.op = "update_password"
    /\ DecoderRejected
    /\ resp.presented.fmt = "jwt"
    /\ resp.presented.exp >= now
    /\ SignedWith(resp.presented) # Secret

\* C26: the password column of every stored user holds a hash made by
\* the password hash function from some password and salt, never a
\* password as submitted.
C26_NoPlaintextStored ==
    \A i \in Ids :
        /\ users[i].password.alg = "argon2id"
        /\ \E p \in Passwords, s \in Salts :
              users[i].password = HashPassword(p, s)
        /\ resp.op \in {"signup", "update_password"}
           => users[i].password.digest # <<"plain", users[i].password.salt,
                                            resp.password>>

\* update_password has replaced a hash by the hash of another password
C26_Witness ==
    /\ resp.op = "update_password"
    /\ resp.status = 200
    /\ HashedFrom(resp.before.users[resp.row].password) # resp.password
    /\ users[resp.row].password.alg = "argon2id"
    /\ HashedFrom(users[resp.row].password) = resp.password

\* C27: the token signup returns is accepted by the guard while its user
\* has active = false, and update_password presented with a well signed,
\* unexpired token of a stored user succeeds whether or not the user has
\* been confirmed.
C27_PendingTokenUsable ==
    /\ resp.op = "signup" /\ resp.status = 200
       => /\ GuardAccepts(resp.token)
          /\ ~users[resp.row].active
             => UpdatePasswordResponse(
                    [kind |-> "Bearer", token |-> resp.token],
                    "pw", TRUE).status = 200
    /\ ( /\ resp.op = "update_password"
         /\ ~resp.dbErr
         /\ PresentedSigned
         /\ resp.presented.exp >= now
         /\ resp.presented.sub \in Ids )
       => resp.status = 200

\* a password changed with a signup token before any confirm
C27_Witness ==
    /\ resp.op = "update_password"
    /\ resp.status = 200
    /\ confirmed = {}
    /\ ~users[resp.row].active
    /\ HashedFrom(users[resp.row].password) = resp.password

\* C28: signup and reset_password try the mail only after their insert
\* and a failed send ends the request with an error; a reset_password
\* whose send failed returns no OTP, yet the row it inserted is stored
\* and otp_verify accepts every stored OTP with its owner's email until
\* the row expires.
C28_MailAfterInsertNoRollback ==
    /\ resp.op = "signup" /\ resp.mail # NoMail
       => /\ resp.row \in Ids
          /\ users[resp.row].email = resp.mail.to
          /\ ~resp.mail.delivered => resp.status = 500 /\ resp.token = NoToken
    /\ resp.op = "reset_password" /\ resp.mail # NoMail
       => /\ \E o \in otps :
                /\ o.user_id = users[resp.row].id
                /\ o.expires_at = now + OtpTtl
          /\ ~resp.mail.delivered
             => /\ resp.status = 500
                /\ resp.otp = ""
                /\ resp.token = NoToken
    /\ \A o \in otps : \A i \in Ids :
          (users[i].id = o.user_id /\ now <= o.expires_at)
          => OtpResponse(users[i].email, o.otp, i, TRUE, TRUE).status = 200

\* a reset whose mail failed, its row in the table
C28_Witness ==
    /\ resp.op = "reset_password"
    /\ resp.status = 500
    /\ resp.mail # NoMail
    /\ ~resp.mail.delivered
    /\ otps # resp.before.otps

\* C22: an update_password that passed the guard and whose UPDATE did
\* not fail replaces the password hash of the row whose id is the token's
\* sub by a hash of the submitted password and leaves its email and
\* active flag, every other row and the OTP rows as they were; when no
\* row has that id it answers 404 "User not found" and changes nothing.
C22_UpdatePasswordFrame ==
    ( /\ resp.op = "update_password"
      /\ ~resp.dbErr
      /\ PresentedSigned
      /\ resp.presented.exp >= now )
    => /\ DOMAIN users = DOMAIN resp.before.users
       /\ otps = resp.before.otps
       /\ \A i \in Ids :
             IF resp.before.users[i].id = resp.presented.sub
             THEN /\ resp.status = 200
                  /\ \E salt \in Salts :
                        users[i].password = HashPassword(resp.password, salt)
                  /\ users[i].id = resp.before.users[i].id
                  /\ users[i].email = resp.before.users[i].email
                  /\ users[i].active = resp.before.users[i].active
             ELSE users[i] = resp.before.users[i]
       /\ (\A i \in Ids : resp.before.users[i].id # resp.presented.sub)
          => /\ resp.status = 404
             /\ resp.body = "User not found"
             /\ users = resp.before.users

\* one of two users got a new password
C22_Witness ==
    /\ resp.op = "update_password"
    /\ resp.status = 200
    /\ Len(users) = 2
    /\ users[resp.row].password # resp.before.users[resp.row].password
    /\ \E j \in Ids : j # resp.row /\ users[j] = resp.before.users[j]

\* C29: every token handed out is signed with the one secret the
\* decoders verify against, the JWT_SECRET variable or "secret" when it
\* is unset, so confirm, refresh_token and the guard all accept it; with
\* the variable unset a token signed outside the server with "secret" is
\* accepted, and with it set such a token is rejected.
C29_OneSecretEverywhere ==
    /\ resp.token # NoToken
       => SignedWith(resp.token)
             = (IF jwtEnv = "unset" THEN "secret" ELSE jwtEnv)
    /\ \A t \in issued :
          /\ SignedWith(t) = (IF jwtEnv = "unset" THEN "secret" ELSE jwtEnv)
          /\ ConfirmDecode(t) = "Ok"
          /\ RefreshDecode(t) = "Ok"
          /\ GuardAccepts(t)
    /\ ( /\ resp.op \in {"confirm", "refresh_token", "update_password"}
         /\ resp.presented \in Forged )
       => (DecoderRejected <=> jwtEnv # "unset")

\* with JWT_SECRET unset, a token nobody issued passes the guard
C29_Witness ==
    /\ jwtEnv = "unset"
    /\ resp.op = "update_password"
    /\ resp.presented \in Forged
    /\ resp.presented \notin issued
    /\ resp.status = 404

\* the routes whose handler takes an AuthenticatedUser
Protected ==
    {"update_password", "users_create", "users_categories", "products_create"}

\* nothing stored differs from what the request found
NothingChanged ==
    /\ users = resp.before.users
    /\ otps = resp.before.otps
    /\ profiles = resp.before.profiles
    /\ catalog = resp.before.catalog

\* C21: a request to update_password, users::create, users::categories
\* or products::create that carries no Authorization header, a header
\* that is not a bearer token, or a token the decoder refuses is answered
\* 401 and leaves every table and the bucket as they were.
C21_GuardRejectsBeforeHandler ==
    ( /\ resp.op \in Protected
      /\ Decode(resp.presented, Secret, 60, now) # "Ok" )
    => /\ resp.status = 401
       /\ resp.body \in {"Missing or malformed token", "Invalid token"}
       /\ resp.presented = NoToken
          => resp.body = "Missing or malformed token"
       /\ resp.presented.fmt = "jwt" => resp.body = "Invalid token"
       /\ resp.row = 0
       /\ NothingChanged

\* a product stored, and a later create with an altered token refused
C21_Witness ==
    /\ resp.op = "products_create"
    /\ resp.status = 401
    /\ resp.presented.fmt = "jwt"
    /\ resp.presented.exp >= now
    /\ catalog.products # {}
    /\ profiles.buyers # EmptyBag

\* the rows a create request added
NewProducts == catalog.products \ resp.before.catalog.products
NewImages == catalog.images \ resp.before.catalog.images

\* C30: a products::create with a valid bearer token and the body of
\* tests/create_product.rs (title, description, price, phone number,
\* category, condition, delivery and payment options and one JPEG part),
\* or that body under the field names the handler reads, is answered 200
\* when neither the store nor the bucket fails, and its product row, its
\* image rows at positions 0..n-1 and its option rows are all stored.
C30_CreateProductFromTest ==
    ( /\ resp.op = "products_create"
      /\ GuardAccepts(resp.presented)
      /\ resp.request.parts \in {TestRequest, GoodRequest}
      /\ resp.status # 500 )
    => /\ resp.status = 200
       /\ \E pr \in NewProducts :
             /\ pr.user_id = resp.presented.sub
             /\ {im.position : im \in {x \in NewImages : x.product_id = pr.id}}
                  = {0}
             /\ {<<pr.id, 1>>, <<pr.id, 2>>} \subseteq catalog.delivery
             /\ <<pr.id, 1>> \in catalog.payment

\* what each decoding endpoint answers a token t at this instant
ConfirmAccepts(t) == ConfirmResponse(t, TRUE).status = 200
RefreshAccepts(t) == RefreshResponse(t).status = 200

\* a correctly signed token whose exp lies in the 60 seconds before now
InLeeway(t) ==
    /\ t.fmt = "jwt"
    /\ t.sig = Sign(Secret, t.sub, t.email, t.exp)
    /\ t.exp < now
    /\ t.exp + 60 >= now

\* the endpoint of the response at hand accepted the presented token
Accepted ==
    \/ resp.op = "confirm" /\ resp.status = 200
    \/ resp.op = "refresh_token" /\ resp.status = 200
    \/ resp.op = "update_password" /\ resp.status # 401

\* C31 as stated: at any instant confirm, refresh_token and the
\* authentication guard agree on every token, also on tokens whose exp
\* lies within the last 60 seconds before the current time.
C31_DecodersAgree ==
    /\ \A t \in Presentable :
          /\ ConfirmAccepts(t) = RefreshAccepts(t)
          /\ RefreshAccepts(t) = GuardAccepts(t)
    /\ resp.op \in {"confirm", "refresh_token", "update_password"}
       => /\ Accepted = ConfirmAccepts(resp.presented)
          /\ Accepted = RefreshAccepts(resp.presented)
          /\ Accepted = GuardAccepts(resp.presented)

\* C31 amended: at any instant refresh_token and the authentication guard
\* agree on every token, and confirm agrees with them on every token
\* except a correctly signed one whose exp lies within the last 60 seconds
\* before the current time, which confirm refuses and the other two
\* accept.
C31_DecodersAgreeOutsideLeeway ==
    /\ \A t \in Presentable :
          /\ RefreshAccepts(t) = GuardAccepts(t)
          /\ InLeeway(t) => ~ConfirmAccepts(t) /\ RefreshAccepts(t)
          /\ ~InLeeway(t) => ConfirmAccepts(t) = RefreshAccepts(t)
    /\ resp.op \in {"refresh_token", "update_password"}
       => /\ Accepted = RefreshAccepts(resp.presented)
          /\ Accepted = GuardAccepts(resp.presented)
          /\ ~InLeeway(resp.presented)
             => Accepted = ConfirmAccepts(resp.presented)
    /\ resp.op = "confirm"
       => /\ InLeeway(resp.presented)
             => ~Accepted /\ GuardAccepts(resp.presented)
          /\ ~InLeeway(resp.presented)
             => Accepted = RefreshAccepts(resp.presented)

\* confirm refuses, 60 seconds after its exp, a token that a refresh
\* would still take
C31_Witness ==
    /\ resp.op = "confirm"
    /\ resp.status = 500
    /\ resp.presented.exp + 60 = now
    /\ RefreshAccepts(resp.presented)
    /\ GuardAccepts(resp.presented)

\* the claims of a token name a stored user: sub is a row's id and email
\* that row's email
NamesStoredUser(t) ==
    /\ t.sub \in Ids
    /\ users[t.sub].id = t.sub
    /\ users[t.sub].email = t.email

\* C32: in every reachable state each token issued by signup,
\* login, refresh_token or otp_verify has a sub that is the id of a
\* stored user and that user's email, and update_password never answers
\* 404 to a token this system issued.
C32_IssuedNamesStoredUser ==
    /\ \A t \in issued : NamesStoredUser(t)
    /\ ( /\ resp.op \in Issuers
         /\ resp.token # NoToken )
       => NamesStoredUser(resp.token)
    /\ ( /\ resp.op = "update_password"
         /\ resp.presented \in issued )
       => resp.status # 404

\* a table with every active flag erased: what is left of two states that
\* differ only in whether users are active
WithoutActive(us) ==
    [i \in DOMAIN us |-> [id |-> us[i].id, email |-> us[i].email]]

\* what reset_password answers, read off the tables without their active
\* flags: the status, and whether an OTP is in the body
ResetOutcome(us, e, delivered) ==
    IF \A i \in DOMAIN us : us[i].email # e THEN [status |-> 401, otp |-> FALSE]
    ELSE IF delivered THEN [status |-> 200, otp |-> TRUE]
    ELSE [status |-> 500, otp |-> FALSE]

\* the same for otp_verify: 200 exactly for a stored unexpired OTP of a
\* user stored under the email
OtpOutcome(us, os, e, v, clock) ==
    IF \E i \in DOMAIN us, o \in os :
          /\ us[i].email = e
          /\ o.user_id = us[i].id
          /\ o.otp = v
          /\ o.expires_at >= clock
    THEN 200 ELSE 401

\* C33: what reset_password and otp_verify answer does not depend on the
\* user's active flag: the answer is a function of the request and of
\* the tables with the flags erased, so a user who is still pending gets
\* an OTP and exchanges it for a session token, while login with any
\* password refuses that user.
C33_ResetFlowIgnoresActive ==
    /\ ( /\ resp.op = "reset_password"
         /\ ~resp.dbErr )
       => /\ resp.status
               = ResetOutcome(WithoutActive(resp.before.users), resp.email,
                              resp.mail.delivered).status
          /\ (resp.otp # "")
               = ResetOutcome(WithoutActive(resp.before.users), resp.email,
                              resp.mail.delivered).otp
    /\ ( /\ resp.op = "otp_verify"
         /\ ~resp.dbErr )
       => /\ resp.status
               = OtpOutcome(WithoutActive(resp.before.users),
                            resp.before.otps, resp.email, resp.otp, now)
          /\ resp.status = 200
             => /\ resp.token.sub = users[resp.row].id
                /\ resp.token.email = resp.email
                /\ GuardAccepts(resp.token)
                /\ ~users[resp.row].active
                   => \A p \in Passwords :
                         /\ LoginResponse(resp.email, p, resp.row, TRUE).status
                              = 401
                         /\ LoginResponse(resp.email, p, resp.row, TRUE).body
                              = "Email not confirmed"

\* a user who never confirmed exchanges an OTP for a session token
C33_Witness ==
    /\ resp.op = "otp_verify"
    /\ resp.status = 200
    /\ ~users[resp.row].active
    /\ resp.token.sub = users[resp.row].id
    /\ resp.email \notin confirmed

\* C34: confirm answers 200 to every correctly signed token whose exp has
\* not passed, whichever of signup, login, refresh_token and otp_verify
\* issued it, and when its UPDATE succeeds every row stored under the
\* token's email is active afterwards and no other row changed; so a user
\* whose signup mail failed becomes active by reset_password, otp_verify
\* and a confirm of the token otp_verify returned.
C34_ConfirmAcceptsAnyIssuer ==
    /\ ( /\ resp.op \in Issuers
         /\ resp.token # NoToken )
       => ConfirmAccepts(resp.token)
    /\ ( /\ resp.op = "confirm"
         /\ PresentedSigned
         /\ resp.presented.exp >= now )
       => /\ resp.status = 200
          /\ DOMAIN users = DOMAIN resp.before.users
          /\ ~resp.dbErr
             => \A i \in Ids :
                   IF users[i].email = resp.presented.email
                   THEN users[i] = [resp.before.users[i] EXCEPT !.active = TRUE]
                   ELSE users[i] = resp.before.users[i]

\* signups arrive only at instant 0 and none was answered with a token;
\* the pending user is activated by a token issued later, by otp_verify
C34_Witness ==
    /\ resp.op = "confirm"
    /\ resp.status = 200
    /\ resp.presented.exp > 7 * 24 * 60 * 60
    /\ \A t \in issued : t.exp > 7 * 24 * 60 * 60
    /\ signups[1].pc = "idle"
    /\ Len(users) = 1
    /\ ~resp.before.users[1].active
    /\ users[1].active
    /\ otps # {}

\* the rows a reset added to otp_tokens
NewOtps == otps \ resp.before.otps

\* C35: every reset_password answered 200 adds exactly one OTP row, owned
\* by the user and carrying the returned value, and leaves every earlier
\* row as it was; every stored row that has not expired is accepted by
\* otp_verify for its owner, an older row as well as the latest one.
C35_ResetsAccumulate ==
    /\ ( /\ resp.op = "reset_password"
         /\ resp.status = 200 )
       => /\ resp.before.otps \subseteq otps
          /\ Cardinality(NewOtps) = 1
          /\ \A o \in NewOtps :
                /\ o.user_id = users[resp.row].id
                /\ o.otp = resp.otp
    /\ ( /\ resp.op = "otp_verify"
         /\ ~resp.dbErr
         /\ \E o \in resp.before.otps, i \in Ids :
               /\ users[i].email = resp.email
               /\ o.user_id = users[i].id
               /\ o.otp = resp.otp
               /\ o.expires_at >= now )
       => /\ resp.status = 200
          /\ resp.token.fmt = "jwt"
    /\ \A o \in otps, i \in Ids :
          (o.user_id = users[i].id /\ o.expires_at >= now)
          => OtpResponse(users[i].email, o.otp, i, TRUE, TRUE).status = 200

\* the value of the first of two rows is accepted after a second reset
\* stored another value
C35_Witness ==
    /\ resp.op = "otp_verify"
    /\ resp.status = 200
    /\ Cardinality(otps) = 2
    /\ \E o \in otps, later \in otps :
          /\ o.otp = resp.otp
          /\ o.user_id = users[resp.row].id
          /\ later.user_id = o.user_id
          /\ later.n > o.n
          /\ later.otp # o.otp
          /\ later.expires_at > o.expires_at

\* C36: when update_password is answered 200 with a new password q for
\* an active user, stored once under its email, whose hash was made from
\* another password p, a login with that email is answered 200 with q
\* and 401 "Invalid credentials" with p; and every login of an active
\* user is answered 200 exactly for the password its stored hash was
\* last made from.
C36_LoginFollowsPasswordChange ==
    /\ ( /\ resp.op = "update_password"
         /\ resp.status = 200
         /\ resp.before.users[resp.row].active
         /\ RowsByEmail(users[resp.row].email) = {resp.row}
         /\ HashedFrom(resp.before.users[resp.row].password) # resp.password )
       => /\ LoginResponse(users[resp.row].email, resp.password,
                           resp.row, TRUE).status = 200
          /\ LoginResponse(users[resp.row].email, resp.password,
                           resp.row, TRUE).token.sub = users[resp.row].id
          /\ LoginResponse(users[resp.row].email,
                           HashedFrom(resp.before.users[resp.row].password),
                           resp.row, TRUE).status = 401
          /\ LoginResponse(users[resp.row].email,
                           HashedFrom(resp.before.users[resp.row].password),
                           resp.row, TRUE).body = "Invalid credentials"
    /\ \A i \in Ids :
          ( /\ resp.op = "login"
            /\ ~resp.dbErr
            /\ RowsByEmail(resp.email) = {i}
            /\ users[i].active )
          => IF resp.password = HashedFrom(users[i].password)
             THEN /\ resp.status = 200
                  /\ resp.token.sub = users[i].id
             ELSE /\ resp.status = 401
                  /\ resp.body = "Invalid credentials"

\* the user signed up with "pw" and logs in with the password it changed
\* to
C36_Witness ==
    /\ resp.op = "login"
    /\ resp.status = 200
    /\ resp.password # "pw"
    /\ users[1].active
    /\ HashedFrom(users[1].password) = resp.password
    /\ LoginResponse(resp.email, "pw", 1, TRUE).status = 401

\* the handlers that only read the store
Readers == {"login", "logout", "refresh_token", "otp_verify"}

\* C37: whatever login, logout, refresh_token and otp_verify answer,
\* success, refusal or failure of the store, the user rows and the OTP
\* rows after the request are those before it.
C37_ReadersLeaveStore ==
    resp.op \in Readers
    => /\ users = resp.before.users
       /\ otps = resp.before.otps

\* an OTP exchanged for a token, and the row it matched is still stored
C37_Witness ==
    /\ resp.op = "otp_verify"
    /\ resp.status = 200
    /\ \E o \in otps : o.otp = resp.otp /\ o.user_id = users[resp.row].id
    /\ resp.token \in issued

\* the rows of the four product tables
Rows(c) ==
    [products |-> c.products, images |-> c.images, delivery |-> c.delivery,
     payment |-> c.payment]

\* C38: a products::create that passed the guard and is not answered 200
\* leaves the product, image and option rows as they were, whichever step
\* from the begin of the transaction to its commit failed; and a body
\* with no photo, an oversized photo, a disallowed file type or invalid
\* form data is answered 400 and nothing is written or uploaded.
C38_CreateAllOrNothing ==
    ( /\ resp.op = "products_create"
      /\ GuardAccepts(resp.presented) )
    => /\ resp.status # 200 => Rows(catalog) = Rows(resp.before.catalog)
       /\ resp.status = 200
          => /\ Cardinality(NewProducts) = 1
             /\ NewImages # {}
       /\ Parsed(resp.request.parts).err # ""
          => /\ resp.status = 400
             /\ catalog = resp.before.catalog

\* rows a role table b holds for user u
RoleRows(b, u) == CopiesIn(u, b)

\* C39: after a users::create answered 200 the buyers table holds exactly
\* one row for the caller when is_buyer was true, however many such
\* requests came before, and is as it was when is_buyer was false; the
\* same for sellers and is_seller; and after any users::create, answered
\* 200 or not, the rows of every other user are as they were.
C39_RolesIdempotent ==
    resp.op = "users_create"
    => /\ resp.status = 200
          => /\ IF resp.request.is_buyer
                THEN RoleRows(profiles.buyers, resp.presented.sub) = 1
                ELSE profiles.buyers = resp.before.profiles.buyers
             /\ IF resp.request.is_seller
                THEN RoleRows(profiles.sellers, resp.presented.sub) = 1
                ELSE profiles.sellers = resp.before.profiles.sellers
       /\ \A u \in Ids \ {resp.presented.sub} :
             /\ RoleRows(profiles.buyers, u)
                  = RoleRows(resp.before.profiles.buyers, u)
             /\ RoleRows(profiles.sellers, u)
                  = RoleRows(resp.before.profiles.sellers, u)
       /\ profiles.categories = resp.before.profiles.categories

\* the second user repeats a request that made it a buyer, next to the
\* first user's rows
C39_Witness ==
    /\ resp.op = "users_create"
    /\ resp.status = 200
    /\ resp.request.is_buyer
    /\ ~resp.request.is_seller
    /\ resp.presented.sub = 2
    /\ RoleRows(resp.before.profiles.buyers, 2) = 1
    /\ RoleRows(profiles.buyers, 1) = 1
    /\ RoleRows(profiles.sellers, 1) = 1

\* the category rows a table holds for user u
CategoriesOf(p, u) == {row \in p.categories : row[1] = u}

\* C40: after a users::categories answered 200 the caller's rows in
\* user_categories are exactly the categories of the request, none for
\* an empty list, and the rows of other users are as they were; after one
\* answered with an error the caller's previous rows are still stored.
C40_CategoriesReplacedOrKept ==
    resp.op = "users_categories"
    => /\ resp.status = 200
          => /\ CategoriesOf(profiles, resp.presented.sub)
                  = {<<resp.presented.sub, resp.request.categories[k]>> :
                        k \in DOMAIN resp.request.categories}
             /\ \A u \in Ids \ {resp.presented.sub} :
                   CategoriesOf(profiles, u)
                     = CategoriesOf(resp.before.profiles, u)
       /\ resp.status # 200
          => \A u \in Ids :
                CategoriesOf(resp.before.profiles, u)
                  \subseteq CategoriesOf(profiles, u)

====
